---- MODULE Spec2Model ----
(***************************************************************************)
(* lock_order: the `lock!` procedural macro (src/src/lib.rs).              *)
(*                                                                         *)
(* Two specifications share this module.                                   *)
(*   Spec     one expansion of `lock!`: the token scan, the sort and the   *)
(*            formatting of the `let (..) = (..);` statement, one action   *)
(*            per match arm / statement of `lock`.                         *)
(*   SpecRun  threads of a host program, each executing the statement      *)
(*            `lock!` emitted for its call site against std::sync::Mutex.  *)
(*                                                                         *)
(* Strings are TLA+ strings; a token is modelled by its `to_string()`.     *)
(***************************************************************************)
EXTENDS Integers, Sequences, FiniteSets, TLC

\* ------------------------------------------------------------------ bounds

\* Longest input token stream of one expansion.
MaxTokens == 5

\* ------------------------------------------------------------ token texts

\* The texts the scan distinguishes ("mut", ","), the member-access
\* separator, and identifiers; "ab" extends "a", so that lexicographic order
\* and order by length disagree ("ab" < "b").
Tokens == {"mut", ",", ".", "a", "b", "ab"}

\* Byte values of the characters identifiers and separators are made of
\* (String comparison in Rust is bytewise).
Byte == [c \in {".", "a", "b", "c", "s"} |->
           CASE c = "." -> 46 [] c = "a" -> 97 [] c = "b" -> 98
             [] c = "c" -> 99 [] c = "s" -> 115]

\* All token streams of at most n tokens.
RECURSIVE TokenStreams(_)
TokenStreams(n) ==
    IF n = 0 THEN {<< >>}
    ELSE LET shorter == TokenStreams(n - 1)
         IN  shorter \cup {Append(s, t) : s \in {x \in shorter : Len(x) = n - 1}, t \in Tokens}

\* ------------------------------------------------------------- LockItem

\* LockItem::default(): empty strings, mutable = false  (#[derive(Default)]).
LockItemDefault ==
    [last_identifier |-> "", full_identifier |-> "", mutable |-> FALSE]

\* Mutant: the first token of an entry stays its last_identifier.
AddKeepFirst(self, id) ==
    [self EXCEPT !.full_identifier = @ \o id,
                 !.last_identifier = IF @ = "" THEN id ELSE @]

\* LockItem::add
add(self, id) ==
    [self EXCEPT !.full_identifier = @ \o id, !.last_identifier = id]

\* ------------------------------------------------------------- the scan

\* The three arms of `match i.to_string().as_str()`, on the pair (out, curr).
ArmMut(st) == [st EXCEPT !.curr.mutable = TRUE]

ArmComma(st) == [out |-> Append(st.out, st.curr), curr |-> LockItemDefault]

ArmOther(st, i) == [st EXCEPT !.curr = add(@, i)]

ScanToken(st, i) ==
    CASE i = "mut" -> ArmMut(st)
      [] i = ","   -> ArmComma(st)
      [] OTHER     -> ArmOther(st, i)

\* Mutant: the entry in progress is pushed whatever it holds.
PushLastAlways(st) == Append(st.out, st.curr)

\* `if curr != LockItem::default() { out.push(curr); }`
PushLast(st) ==
    IF st.curr # LockItemDefault THEN Append(st.out, st.curr) ELSE st.out

\* ------------------------------------------------------------- the sort

\* <String as PartialOrd>::partial_cmp: bytewise lexicographic, a proper
\* prefix is Less.  It is always Some(..), so the `.unwrap()` cannot fail.
RECURSIVE partial_cmp(_, _)
partial_cmp(a, b) ==
    IF a = "" /\ b = "" THEN "Equal"
    ELSE IF a = "" THEN "Less"
    ELSE IF b = "" THEN "Greater"
    ELSE IF Byte[Head(a)] < Byte[Head(b)] THEN "Less"
    ELSE IF Byte[Head(a)] > Byte[Head(b)] THEN "Greater"
    ELSE partial_cmp(Tail(a), Tail(b))

\* Mutant: the operands are swapped (descending order).
CompareReversed(a, b) == partial_cmp(b.last_identifier, a.last_identifier)

\* Mutant: the key is the whole access path.
CompareFullIdentifier(a, b) == partial_cmp(a.full_identifier, b.full_identifier)

\* The closure given to sort_by.
compare(a, b) == partial_cmp(a.last_identifier, b.last_identifier)

\* Mutant: an element moves left past elements that compare Equal as well.
RECURSIVE InsertTailUnstable(_, _)
InsertTailUnstable(sorted, x) ==
    IF sorted = << >> THEN << x >>
    ELSE IF compare(sorted[Len(sorted)], x) # "Less"
         THEN Append(InsertTailUnstable(SubSeq(sorted, 1, Len(sorted) - 1), x),
                     sorted[Len(sorted)])
         ELSE Append(sorted, x)

\* One insertion step of the stable sort: x, the next element, moves left
\* past exactly the elements that compare Greater.
RECURSIVE InsertTail(_, _)
InsertTail(sorted, x) ==
    IF sorted = << >> THEN << x >>
    ELSE IF compare(sorted[Len(sorted)], x) = "Greater"
         THEN Append(InsertTail(SubSeq(sorted, 1, Len(sorted) - 1), x),
                     sorted[Len(sorted)])
         ELSE Append(sorted, x)

\* Mutant: the sort is missing.
SortByNothing(v) == v

\* slice::sort_by (stable; an insertion sort for slices this short).
RECURSIVE sort_by(_)
sort_by(v) ==
    IF v = << >> THEN << >>
    ELSE InsertTail(sort_by(SubSeq(v, 1, Len(v) - 1)), v[Len(v)])

\* ---------------------------------------------------------- the emitter

\* [String]::join
RECURSIVE join(_, _)
join(v, sep) ==
    IF v = << >> THEN ""
    ELSE IF Len(v) = 1 THEN v[1]
    ELSE v[1] \o sep \o join(Tail(v), sep)

\* The closure of the first map: `mut <last_identifier>` or `<last_identifier>`.
Declaration(x) ==
    IF x.mutable THEN "mut " \o x.last_identifier ELSE x.last_identifier

\* Mutant: the acquisition keeps the Result instead of unwrapping it.
AcquisitionNoUnwrap(x) == x.full_identifier \o ".lock()"

\* The closure of the second map: `<full_identifier>.lock().unwrap()`.
Acquisition(x) == x.full_identifier \o ".lock().unwrap()"

\* Mutant: every binding is emitted without its `mut`.
DeclarationsNoMut(v) == [k \in 1..Len(v) |-> v[k].last_identifier]

Declarations(v) == [k \in 1..Len(v) |-> Declaration(v[k])]

\* Mutant: the acquisitions are emitted in reverse.
LocksReversed(v) == [k \in 1..Len(v) |-> Acquisition(v[Len(v) + 1 - k])]

Locks(v) == [k \in 1..Len(v) |-> Acquisition(v[k])]

\* format!("let ({}) = ({});", declarations.join(", "), locks.join(", "))
Statement(decls, lcks) ==
    "let (" \o join(decls, ", ") \o ") = (" \o join(lcks, ", ") \o ");"

\* ------------------------------------------------- lock, as one function

RECURSIVE Scan(_, _)
Scan(st, toks) ==
    IF toks = << >> THEN st ELSE Scan(ScanToken(st, Head(toks)), Tail(toks))

\* The Lock References in `out` when the loop and the final push are done.
Parsed(toks) ==
    PushLast(Scan([out |-> << >>, curr |-> LockItemDefault], toks))

\* The text `lock` hands to `.parse()`.
lock(toks) ==
    LET sorted == sort_by(Parsed(toks))
    IN  Statement(Declarations(sorted), Locks(sorted))

\* ------------------------------------------------------------ one expansion

VARIABLES
    item,          \* the input TokenStream, as token texts
    pos,           \* index of the token the `for` loop takes next
    out,           \* Vec<LockItem>
    curr,          \* the LockItem being built
    declarations,  \* Vec<String>
    locks,         \* Vec<String>
    output,        \* the formatted statement
    pc             \* the statement of `lock` executed next

xvars == << item, pos, out, curr, declarations, locks, output, pc >>

\* The host program that runs the emitted statements.
VARIABLES
    site,      \* per thread: the tokens of its `lock!` invocation
    code,      \* per thread: the statement the invocation expanded to, compiled
    tpc,       \* per thread: acquire, body, leaving, unwinding, done, panicked
    next,      \* per thread: index of the acquisition evaluated next
    held,      \* per thread: the mutexes whose guards it owns, oldest first
    bound,     \* per thread: the names the statement has bound
    holder,    \* per mutex: the threads that have it locked (none or one)
    poisoned   \* per mutex: its poison flag

rvars == << site, code, tpc, next, held, bound, holder, poisoned >>

vars == << xvars, rvars >>

InitExpand ==
    /\ item \in TokenStreams(MaxTokens)
    /\ pos = 1
    /\ out = << >>
    /\ curr = LockItemDefault
    /\ declarations = << >>
    /\ locks = << >>
    /\ output = ""
    /\ pc = "scan"

\* The loop takes the next token and leaves (out, curr) as the arm made them.
Iterate(st) ==
    /\ out' = st.out
    /\ curr' = st.curr
    /\ pos' = pos + 1
    /\ UNCHANGED << item, declarations, locks, output, pc >>
    /\ UNCHANGED rvars

\* One iteration of `for i in item`, by the arm taken.
MatchMut ==
    /\ pc = "scan"
    /\ pos <= Len(item)
    /\ item[pos] = "mut"
    /\ Iterate(ArmMut([out |-> out, curr |-> curr]))

MatchComma ==
    /\ pc = "scan"
    /\ pos <= Len(item)
    /\ item[pos] = ","
    /\ Iterate(ArmComma([out |-> out, curr |-> curr]))

MatchOther ==
    /\ pc = "scan"
    /\ pos <= Len(item)
    /\ item[pos] \notin {"mut", ","}
    /\ Iterate(ArmOther([out |-> out, curr |-> curr], item[pos]))

\* The loop is over: the final push.
Finish ==
    /\ pc = "scan"
    /\ pos > Len(item)
    /\ out' = PushLast([out |-> out, curr |-> curr])
    /\ pc' = "sort"
    /\ UNCHANGED << item, pos, curr, declarations, locks, output >>
    /\ UNCHANGED rvars

Sort ==
    /\ pc = "sort"
    /\ out' = sort_by(out)
    /\ pc' = "declarations"
    /\ UNCHANGED << item, pos, curr, declarations, locks, output >>
    /\ UNCHANGED rvars

MapDeclarations ==
    /\ pc = "declarations"
    /\ declarations' = Declarations(out)
    /\ pc' = "locks"
    /\ UNCHANGED << item, pos, out, curr, locks, output >>
    /\ UNCHANGED rvars

MapLocks ==
    /\ pc = "locks"
    /\ locks' = Locks(out)
    /\ pc' = "format"
    /\ UNCHANGED << item, pos, out, curr, declarations, output >>
    /\ UNCHANGED rvars

Format ==
    /\ pc = "format"
    /\ output' = Statement(declarations, locks)
    /\ pc' = "done"
    /\ UNCHANGED << item, pos, out, curr, declarations, locks >>
    /\ UNCHANGED rvars

Next ==
    \/ MatchMut
    \/ MatchComma
    \/ MatchOther
    \/ Finish
    \/ Sort
    \/ MapDeclarations
    \/ MapLocks
    \/ Format

\* ------------------------------------- the emitted statement, read as code

\* Index of the first occurrence of pat in s at or after k; 0 when none.
RECURSIVE IndexOf(_, _, _)
IndexOf(s, pat, k) ==
    IF k + Len(pat) - 1 > Len(s) THEN 0
    ELSE IF SubSeq(s, k, k + Len(pat) - 1) = pat THEN k
    ELSE IndexOf(s, pat, k + 1)

RECURSIVE Split(_, _)
Split(s, sep) ==
    LET k == IndexOf(s, sep, 1)
    IN  IF k = 0 THEN << s >>
        ELSE << SubSeq(s, 1, k - 1) >> \o Split(SubSeq(s, k + Len(sep), Len(s)), sep)

\* The elements of a parenthesised, comma-separated list; `()` has none.
Elements(inner) == IF inner = "" THEN << >> ELSE Split(inner, ", ")

\* The patterns of `let (<bindings>) = (<acquisitions>);`, left to right.
Bindings(stmt) ==
    Elements(SubSeq(stmt, Len("let (") + 1, IndexOf(stmt, ") = (", 1) - 1))

Acquisitions(stmt) ==
    Elements(SubSeq(stmt, IndexOf(stmt, ") = (", 1) + Len(") = ("),
                    Len(stmt) - Len(");")))

IsPrefixOf(p, t) == Len(p) <= Len(t) /\ SubSeq(t, 1, Len(p)) = p

IsSuffixOf(p, t) == Len(p) <= Len(t) /\ SubSeq(t, Len(t) - Len(p) + 1, Len(t)) = p

IsMutBinding(b) == IsPrefixOf("mut ", b)

BindingName(b) ==
    IF IsMutBinding(b) THEN SubSeq(b, Len("mut ") + 1, Len(b)) ELSE b

\* The expression `.lock()` is called on, and whether its Result is unwrapped.
Receiver(e) == SubSeq(e, 1, IndexOf(e, ".lock()", 1) - 1)

Unwraps(e) ==
    SubSeq(e, IndexOf(e, ".lock()", 1) + Len(".lock()"), Len(e)) = ".unwrap()"

\* The statement as the host compiler reads it: the patterns it binds, and
\* for each acquisition the receiver of `.lock()` and whether the Result is
\* unwrapped.
Compile(stmt) ==
    [text         |-> stmt,
     bindings     |-> Bindings(stmt),
     acquisitions |-> [k \in 1..Len(Acquisitions(stmt)) |->
                         [receiver |-> Receiver(Acquisitions(stmt)[k]),
                          unwraps  |-> Unwraps(Acquisitions(stmt)[k])]]]

\* The last segment of a dotted path.
RECURSIVE LastSegment(_)
LastSegment(path) ==
    LET k == IndexOf(path, ".", 1)
    IN  IF k = 0 THEN path ELSE LastSegment(SubSeq(path, k + 1, Len(path)))

\* ------------------------------------------------------- the host program

\* Threads of the host program.
NumThreads == 2

Threads == 1..NumThreads

\* The entries call sites are written with: three mutexes a, b, c, of which
\* a is also reached through the field path s.a.
RunEntries == {<< "a" >>, << "mut", "b" >>, << "c" >>, << "s", ".", "a" >>}

\* The mutex an access path denotes.  Distinct mutexes have distinct final
\* segments, and a mutex may be reached by several paths.
Resolve(path) == LastSegment(path)

Mutexes == {e[Len(e)] : e \in RunEntries}

\* The lock groups: entries naming pairwise distinct mutexes, in any order.
RECURSIVE Groups(_)
Groups(n) ==
    IF n = 0 THEN {<< >>}
    ELSE LET shorter == Groups(n - 1)
         IN  shorter \cup
             {Append(g, e) : g \in {x \in shorter : Len(x) = n - 1},
                             e \in RunEntries} 

DistinctMutexes(g) ==
    \A i, j \in 1..Len(g) : i # j => g[i][Len(g[i])] # g[j][Len(g[j])]

\* The token stream of `lock!(e1, e2, ..)`, for a non-empty list of entries.
RECURSIVE ListTokens(_)
ListTokens(g) ==
    IF Len(g) = 1 THEN g[1] ELSE g[1] \o << "," >> \o ListTokens(Tail(g))

Sites ==
    {ListTokens(g) : g \in {x \in Groups(Cardinality(Mutexes)) :
                              x # << >> /\ DistinctMutexes(x)}}

\* No host program: the macro expands one invocation.
NoProgram ==
    /\ site = << >>
    /\ code = << >>
    /\ tpc = << >>
    /\ next = << >>
    /\ held = << >>
    /\ bound = << >>
    /\ holder = << >>
    /\ poisoned = << >>

\* No expansion in progress: the host program was compiled before it runs.
Compiled ==
    /\ item = << >>
    /\ pos = 1
    /\ out = << >>
    /\ curr = LockItemDefault
    /\ declarations = << >>
    /\ locks = << >>
    /\ output = ""
    /\ pc = "compiled"

\* Compile time: every call site is expanded by `lock` and compiled.
Expansion == [s \in Sites |-> Compile(lock(s))]

InitRun ==
    /\ Compiled
    /\ site \in [Threads -> Sites]
    /\ code = [t \in Threads |-> Expansion[site[t]]]
    /\ tpc = [t \in Threads |-> "acquire"]
    /\ next = [t \in Threads |-> 1]
    /\ held = [t \in Threads |-> << >>]
    /\ bound = [t \in Threads |-> << >>]
    /\ holder = [m \in Mutexes |-> {}]
    /\ poisoned = [m \in Mutexes |-> FALSE]

\* The acquisition thread t evaluates next, and the mutex it is called on.
NextAcquisition(t) == code[t].acquisitions[next[t]]

Wanted(t) == Resolve(NextAcquisition(t).receiver)

Acquiring(t) == tpc[t] = "acquire" /\ next[t] <= Len(code[t].acquisitions)

\* `.lock()` returns Ok(guard), and `.unwrap()` yields the guard.  (A Result
\* that is not unwrapped is a value like any other, Ok or Err.)
AcquireOk(t) ==
    /\ Acquiring(t)
    /\ holder[Wanted(t)] = {}
    /\ ~poisoned[Wanted(t)] \/ ~NextAcquisition(t).unwraps
    /\ holder' = [holder EXCEPT ![Wanted(t)] = {t}]
    /\ held' = [held EXCEPT ![t] = Append(@, Wanted(t))]
    /\ next' = [next EXCEPT ![t] = @ + 1]
    /\ UNCHANGED << site, code, tpc, bound, poisoned >>
    /\ UNCHANGED xvars

\* `.lock()` returns Err(PoisonError { guard }), and `.unwrap()` panics.
AcquirePoisoned(t) ==
    /\ Acquiring(t)
    /\ holder[Wanted(t)] = {}
    /\ poisoned[Wanted(t)] /\ NextAcquisition(t).unwraps
    /\ holder' = [holder EXCEPT ![Wanted(t)] = {t}]
    /\ held' = [held EXCEPT ![t] = Append(@, Wanted(t))]
    /\ tpc' = [tpc EXCEPT ![t] = "unwinding"]
    /\ UNCHANGED << site, code, next, bound, poisoned >>
    /\ UNCHANGED xvars

\* The tuple is complete: the `let` binds its patterns.
Enter(t) ==
    /\ tpc[t] = "acquire"
    /\ next[t] > Len(code[t].acquisitions)
    /\ bound' = [bound EXCEPT ![t] = code[t].bindings]
    /\ tpc' = [tpc EXCEPT ![t] = "body"]
    /\ UNCHANGED << site, code, next, held, holder, poisoned >>
    /\ UNCHANGED xvars

\* The code after the statement panics while the guards are alive.
BodyPanic(t) ==
    /\ tpc[t] = "body"
    /\ tpc' = [tpc EXCEPT ![t] = "unwinding"]
    /\ UNCHANGED << site, code, next, held, bound, holder, poisoned >>
    /\ UNCHANGED xvars

\* The enclosing scope ends.
Leave(t) ==
    /\ tpc[t] = "body"
    /\ tpc' = [tpc EXCEPT ![t] = "leaving"]
    /\ UNCHANGED << site, code, next, held, bound, holder, poisoned >>
    /\ UNCHANGED xvars

\* MutexGuard::drop, youngest guard first: the mutex is unlocked, and it is
\* poisoned when the thread is panicking.
Drop(t) ==
    /\ tpc[t] \in {"leaving", "unwinding"}
    /\ held[t] # << >>
    /\ LET m == held[t][Len(held[t])]
       IN  /\ holder' = [holder EXCEPT ![m] = {}]
           /\ poisoned' = [poisoned EXCEPT ![m] = @ \/ tpc[t] = "unwinding"]
    /\ held' = [held EXCEPT ![t] = SubSeq(@, 1, Len(@) - 1)]
    /\ tpc' = [tpc EXCEPT ![t] =
                 IF Len(held[t]) > 1 THEN @
                 ELSE IF @ = "unwinding" THEN "panicked" ELSE "done"]
    /\ UNCHANGED << site, code, next, bound >>
    /\ UNCHANGED xvars

NextRun ==
    \E t \in Threads :
        \/ AcquireOk(t)
        \/ AcquirePoisoned(t)
        \/ Enter(t)
        \/ BodyPanic(t)
        \/ Leave(t)
        \/ Drop(t)

\* ------------------------------------------------------- specifications

Init == InitExpand /\ NoProgram

Spec == Init /\ [][Next]_vars

SpecRun == InitRun /\ [][NextRun]_vars

\* ------------------------------------------------ the input, entry by entry

\* The comma-separated segments of a token stream: one more than its commas.
RECURSIVE Segments(_)
Segments(toks) ==
    IF toks = << >> THEN << << >> >>
    ELSE LET rest == Segments(Tail(toks))
         IN  IF Head(toks) = "," THEN << << >> >> \o rest
             ELSE << << Head(toks) >> \o rest[1] >> \o Tail(rest)

IsPathToken(t) == t # "mut"

PathTokensOf(seg) == SelectSeq(seg, IsPathToken)

HasMutMarker(seg) == \E k \in 1..Len(seg) : seg[k] = "mut"

RECURSIVE Concatenation(_)
Concatenation(texts) ==
    IF texts = << >> THEN "" ELSE Head(texts) \o Concatenation(Tail(texts))

\* The last token of a segment that is not the marker; "" when there is none.
FinalName(seg) ==
    IF PathTokensOf(seg) = << >> THEN ""
    ELSE PathTokensOf(seg)[Len(PathTokensOf(seg))]

\* The segments that become Lock References: every segment closed by a comma,
\* and the last one unless it is empty.
EntriesOf(toks) ==
    LET segs == Segments(toks)
    IN  IF segs[Len(segs)] = << >> THEN SubSeq(segs, 1, Len(segs) - 1) ELSE segs

Occurrences(v, x) == Cardinality({k \in 1..Len(v) : v[k] = x})

\* `[mut] ident (. ident)*`
WellFormedEntry(seg) ==
    LET path == IF seg # << >> /\ Head(seg) = "mut" THEN Tail(seg) ELSE seg
    IN  /\ Len(path) % 2 = 1
        /\ \A k \in 1..Len(path) :
              IF k % 2 = 1 THEN path[k] \notin {"mut", ",", "."} ELSE path[k] = "."

WellFormedList(toks) ==
    \A k \in 1..Len(Segments(toks)) : WellFormedEntry(Segments(toks)[k])

DistinctFinalNames(segs) ==
    \A i, j \in 1..Len(segs) : i # j => FinalName(segs[i]) # FinalName(segs[j])

Emitting == pc \in {"declarations", "locks", "format", "done"}

\* ------------------------------------------------------------ properties

\* C1: in the statement `lock` emits, the bindings are in non-decreasing
\* lexicographic order of their names, for every input, and the i-th
\* acquisition is that of the Lock Reference the i-th binding names, so the
\* acquisitions are in the same order.
C1_BindingsSorted ==
    pc = "done" =>
        LET b == Bindings(output)
            a == Acquisitions(output)
        IN  /\ \A i, j \in 1..Len(b) :
                  i < j => partial_cmp(BindingName(b[i]), BindingName(b[j])) # "Greater"
            /\ Len(a) = Len(EntriesOf(item))
            /\ \A i \in 1..Len(a) :
                  \E k \in 1..Len(EntriesOf(item)) :
                      /\ Receiver(a[i]) = Concatenation(PathTokensOf(EntriesOf(item)[k]))
                      /\ i <= Len(b) => BindingName(b[i]) = FinalName(EntriesOf(item)[k])

\* An input given out of order has been expanded.
C1_Witness ==
    /\ pc = "done"
    /\ Len(Bindings(output)) > 1
    /\ \E i, j \in 1..Len(EntriesOf(item)) :
          /\ i < j
          /\ partial_cmp(FinalName(EntriesOf(item)[i]), FinalName(EntriesOf(item)[j])) = "Greater"

\* C3: a well-formed list of N entries with pairwise distinct final segments
\* expands to a statement of exactly N bindings and N acquisitions, the i-th
\* binding being the final segment of the entry whose path the i-th
\* acquisition locks.
C3_CountAndPairing ==
    (pc = "done" /\ WellFormedList(item) /\ DistinctFinalNames(Segments(item))) =>
        LET b == Bindings(output)
            a == Acquisitions(output)
            segs == Segments(item)
        IN  /\ Len(b) = Len(segs)
            /\ Len(a) = Len(segs)
            /\ \A i \in 1..Len(segs) :
                  \E k \in 1..Len(segs) :
                      /\ BindingName(b[i]) = FinalName(segs[k])
                      /\ a[i] = Concatenation(PathTokensOf(segs[k])) \o ".lock().unwrap()"
            /\ \A k \in 1..Len(segs) :
                  \E i \in 1..Len(b) : BindingName(b[i]) = FinalName(segs[k])

\* A well-formed list of several entries, one of them a dotted path or marked
\* mutable, has been expanded.
C3_Witness ==
    /\ pc = "done"
    /\ WellFormedList(item)
    /\ DistinctFinalNames(Segments(item))
    /\ Len(Segments(item)) > 1
    /\ Len(item) > Len(Segments(item)) + Len(Segments(item)) - 1

\* C4: the bindings emitted are, entry for entry, `mut <name>` for the
\* entries that carry the marker and `<name>` for those that do not, whatever
\* the order after sorting: as multisets, the declarations are the bindings
\* the entries ask for.
C4_MutabilityPreserved ==
    pc = "done" =>
        LET segs == EntriesOf(item)
            asked == [k \in 1..Len(segs) |->
                        IF HasMutMarker(segs[k]) THEN "mut " \o FinalName(segs[k])
                        ELSE FinalName(segs[k])]
        IN  /\ Len(declarations) = Len(asked)
            /\ \A k \in 1..Len(asked) :
                  Occurrences(declarations, asked[k]) = Occurrences(asked, asked[k])

\* A marked entry was moved by the sort to a position held in the input by an
\* unmarked one.
C4_Witness ==
    /\ pc = "done"
    /\ \E i, j \in 1..Len(EntriesOf(item)) :
          /\ HasMutMarker(EntriesOf(item)[i])
          /\ ~HasMutMarker(EntriesOf(item)[j])
          /\ IsMutBinding(declarations[j])
          /\ ~IsMutBinding(declarations[i])

\* C5 (as claimed): every Lock Reference that reaches the emitter has a
\* non-empty binding_name, which is a suffix of its access_path.
C5_AsClaimed ==
    Emitting =>
        \A i \in 1..Len(out) :
            /\ out[i].last_identifier # ""
            /\ IsSuffixOf(out[i].last_identifier, out[i].full_identifier)

\* The orders n entries can be given in.
PermutationsOf(n) ==
    {f \in [1..n -> 1..n] : \A i, j \in 1..n : i # j => f[i] # f[j]}

\* C6: for entries that each have a name, the names pairwise distinct, `lock`
\* emits the same statement for every order of the entries in the input.
C6_OrderIndependent ==
    (/\ pc = "done"
     /\ \A k \in 1..Len(Segments(item)) : FinalName(Segments(item)[k]) # ""
     /\ DistinctFinalNames(Segments(item))) =>
        LET segs == Segments(item)
        IN  \A f \in PermutationsOf(Len(segs)) :
                lock(ListTokens([k \in 1..Len(segs) |-> segs[f[k]]])) = output

\* Three named entries, given out of order, have been expanded.
C6_Witness ==
    /\ pc = "done"
    /\ \A k \in 1..Len(Segments(item)) : FinalName(Segments(item)[k]) # ""
    /\ DistinctFinalNames(Segments(item))
    /\ Len(Segments(item)) > 2
    /\ partial_cmp(FinalName(Segments(item)[1]), FinalName(Segments(item)[2])) = "Greater"

\* C8 (as claimed): after parsing, the binding_name of every entry is the
\* token immediately before the entry's closing comma or the end of input,
\* and its access_path is the concatenation of its tokens.
C8_AsClaimed ==
    pc = "sort" =>
        \A k \in 1..Len(out) :
            LET seg == EntriesOf(item)[k]
            IN  seg # << >> =>
                    /\ out[k].last_identifier = seg[Len(seg)]
                    /\ out[k].full_identifier = Concatenation(PathTokensOf(seg))

\* C8 (amended): after parsing, the binding_name of every entry is the last
\* token of the entry that is not the `mut` marker, the empty text when it
\* has none, and its access_path is the concatenation, without separator, of
\* the entry's tokens other than the marker, in order.
C8_LastPathToken ==
    pc = "sort" =>
        /\ Len(out) = Len(EntriesOf(item))
        /\ \A k \in 1..Len(out) :
              /\ out[k].last_identifier = FinalName(EntriesOf(item)[k])
              /\ out[k].full_identifier = Concatenation(PathTokensOf(EntriesOf(item)[k]))

\* A dotted path has been parsed, in an entry whose marker is not its first
\* token.
C8_Witness ==
    /\ pc = "sort"
    /\ \E k \in 1..Len(out) :
          /\ Len(PathTokensOf(EntriesOf(item)[k])) > 2
          /\ HasMutMarker(EntriesOf(item)[k])
          /\ Head(EntriesOf(item)[k]) # "mut"

\* C9: when the scan is over, `out` holds one Lock Reference for every comma
\* of the input, and one more exactly when tokens follow the last comma (or
\* there is no comma and the input is not empty); that one is the last.
C9_FinalPush ==
    pc = "sort" =>
        LET segs == Segments(item)
            tail == segs[Len(segs)]
        IN  /\ Len(out) = (Len(segs) - 1) + (IF tail = << >> THEN 0 ELSE 1)
            /\ tail # << >> =>
                  /\ out[Len(out)].full_identifier = Concatenation(PathTokensOf(tail))
                  /\ out[Len(out)].mutable = HasMutMarker(tail)

\* The input ends in a comma that closes an entry.
C9_Witness ==
    /\ pc = "sort"
    /\ Len(item) > 1
    /\ item[Len(item)] = ","
    /\ item[1] # ","

\* The Lock References of v named n, in their order in v.
WithName(v, n) == SelectSeq(v, LAMBDA x : x.last_identifier = n)

\* C10: the sort is stable and changes only the order: for every
\* binding_name, the Lock References of that name are, after the sort, the
\* same and in the same relative order as before it.
C10_StableSort ==
    [][pc = "sort" =>
          /\ Len(out') = Len(out)
          /\ \A k \in 1..Len(out) :
                WithName(out', out[k].last_identifier) = WithName(out, out[k].last_identifier)
      ]_vars

\* The sort has run on two different Lock References of one name that
\* followed, in the input, one of a greater name.
C10_Witness ==
    /\ pc = "declarations"
    /\ \E i, j \in 1..Len(out) :
          /\ i < j
          /\ out[i].last_identifier = out[j].last_identifier
          /\ out[i] # out[j]
    /\ partial_cmp(FinalName(EntriesOf(item)[1]), FinalName(EntriesOf(item)[2])) = "Greater"

\* C2: when every thread takes its locks through a statement `lock` emitted,
\* no set of threads is ever in a circular wait: there is no non-empty set of
\* threads each of which is blocked in its statement on a mutex that another
\* thread of the set has locked.
C2_NoDeadlock ==
    \A S \in SUBSET Threads :
        S # {} =>
            ~ \A t \in S : Acquiring(t) /\ holder[Wanted(t)] \cap (S \ {t}) # {}

\* A thread whose entries the sort reordered holds part of its group and is
\* blocked on a mutex another thread has locked.
C2_Witness ==
    \E t, u \in Threads :
        /\ t # u
        /\ Acquiring(t)
        /\ held[t] # << >>
        /\ holder[Wanted(t)] = {u}
        /\ code[t].acquisitions[1].receiver
              # Concatenation(PathTokensOf(Segments(site[t])[1]))

\* Thread t panicked inside its statement, before the tuple was complete.
StoppedAtAcquisition(t) ==
    /\ tpc[t] \in {"unwinding", "panicked"}
    /\ next[t] <= Len(code[t].acquisitions)

\* C7: a thread that reaches a poisoned mutex in its statement stops there:
\* its step at that acquisition starts the unwinding, and from then on it
\* evaluates no further acquisition, takes no further lock, binds nothing and
\* never runs the code after the statement; it ends panicked.
C7_PoisonTerminates ==
    [][\A t \in Threads :
          /\ (/\ Acquiring(t)
              /\ poisoned[Wanted(t)]
              /\ << tpc'[t], next'[t], held'[t] >> # << tpc[t], next[t], held[t] >>)
                => (tpc'[t] = "unwinding" /\ next'[t] = next[t] /\ bound'[t] = << >>)
          /\ StoppedAtAcquisition(t) =>
                /\ tpc'[t] \in {"unwinding", "panicked"}
                /\ next'[t] = next[t]
                /\ bound'[t] = << >>
                /\ Len(held'[t]) <= Len(held[t])
                /\ held'[t] = << >> => tpc'[t] = "panicked"
      ]_vars

\* A thread has panicked at a poisoned mutex that was not the first of its
\* group.
C7_Witness ==
    \E t \in Threads :
        /\ tpc[t] = "panicked"
        /\ StoppedAtAcquisition(t)
        /\ next[t] > 1

====
